---- MODULE Spec2Model ----
(***************************************************************************)
(* State-machine model of the PDF image extraction pipeline:               *)
(*   src/src/lib/pdf-extractor.ts          extractImagesFromPDF and helpers *)
(*   src/unnamed/part_007                  uploadForServerExtraction        *)
(*   src/src/lib/server-extraction-handler.ts  simulateServerExtraction     *)
(*   src/unnamed/part_004                  handler of the remote endpoint   *)
(*                                                                         *)
(* Byte buffers are run-length coded sequences of <<byte, count>> runs, so  *)
(* that the 1024-byte scan windows and the 200 MiB size ceiling can be      *)
(* exercised with the real constants.  Indices into buffers are 0-based as  *)
(* in the source.  Time is a logical clock: every suspension point (await)  *)
(* of the source advances it by one unit.                                   *)
(***************************************************************************)
EXTENDS Integers, Sequences, FiniteSets, TLC

\* ------------------------------------------------------------------ bounds
MaxPages == 2        \* largest page count of the small documents explored
MaxJunk == 2         \* longest leading-junk prefix of the small buffers

\* ------------------------------------------------------- program constants
MAX_FILE_SIZE == 200 * 1024 * 1024
MAX_PAGES == 1000
MAX_MEMORY_PER_IMAGE == 50 * 1024 * 1024
ScanWindow == 1024
MaxRasterPages == 500
SimMaxPages == 500
HANDLER_MAX_FILE_SIZE == 200 * 1024 * 1024   \* MAX_FILE_SIZE of the handler
HANDLER_MAX_PAGES == 500                     \* MAX_PAGES of the handler

Undefined == "undefined"

\* ------------------------------------------------------------ byte buffers
Min(a, b) == IF a < b THEN a ELSE b
Max(a, b) == IF a > b THEN a ELSE b

\* A run of n equal bytes.
Run(b, n) == <<b, n>>

\* new Uint8Array from a literal list of bytes
RECURSIVE BytesOf(_)
BytesOf(s) == IF s = <<>> THEN <<>> ELSE <<Run(Head(s), 1)>> \o BytesOf(Tail(s))

\* bytes.length
RECURSIVE ByteLength(_)
ByteLength(buf) == IF buf = <<>> THEN 0 ELSE Head(buf)[2] + ByteLength(Tail(buf))

\* bytes[i]; an index outside the array reads undefined (-1 here)
RECURSIVE ByteAt(_, _)
ByteAt(buf, i) ==
  IF i < 0 \/ buf = <<>> THEN -1
  ELSE IF i < Head(buf)[2] THEN Head(buf)[1]
  ELSE ByteAt(Tail(buf), i - Head(buf)[2])

\* bytes.slice(k): the bytes from offset k to the end
RECURSIVE SliceFrom(_, _)
SliceFrom(buf, k) ==
  IF buf = <<>> THEN <<>>
  ELSE IF k <= 0 THEN buf
  ELSE IF k >= Head(buf)[2] THEN SliceFrom(Tail(buf), k - Head(buf)[2])
  ELSE <<Run(Head(buf)[1], Head(buf)[2] - k)>> \o Tail(buf)

\* the plain list of the first n bytes (arrayBuffer.slice(0, n) as a string)
FirstBytes(buf, n) == [i \in 1..Min(n, ByteLength(buf)) |-> ByteAt(buf, i - 1)]

PDF_MAGIC == <<37, 80, 68, 70, 45>>          \* '%PDF-'
EOF_MARKER == <<37, 37, 69, 79, 70>>         \* '%%EOF'
EofPatchMut == <<37, 37, 69, 79, 70>>
EOF_PATCH == <<10, 37, 37, 69, 79, 70>>      \* '\n%%EOF'

\* validatePDFHeader: the first five bytes must be exactly '%PDF-'
validatePDFHeader(buf) ==
  LET header == FirstBytes(buf, 5)
  IN [valid |-> header = PDF_MAGIC, header |-> header]

\* the four-byte test '%PDF' at offset i
HasMagicAt(buf, i) ==
  /\ ByteAt(buf, i) = 37
  /\ ByteAt(buf, i + 1) = 80
  /\ ByteAt(buf, i + 2) = 68
  /\ ByteAt(buf, i + 3) = 70

\* findPDFHeaderIndex: first i in 0 .. min(length-5, 1024)-1 with '%PDF' at i
findPDFHeaderIndex(buf) ==
  LET limit == Min(ByteLength(buf) - 5, ScanWindow)
      hits == {i \in 0..(limit - 1) : HasMagicAt(buf, i)}
  IN IF hits = {} THEN -1
     ELSE CHOOSE i \in hits : \A j \in hits : i <= j

\* findEOFMarker: some i in max(0,length-1024) .. length-1 where the five
\* bytes ending at i are '%%EOF'
findEOFMarker(buf) ==
  LET len == ByteLength(buf)
      searchStart == Max(0, len - ScanWindow)
  IN \E i \in searchStart..(len - 1) :
       \A j \in 0..4 : ByteAt(buf, i - 5 + 1 + j) = EOF_MARKER[j + 1]

\* ------------------------------------------------------------ error texts
\* An error message is a list of words; includes() looks for a word list.
Includes(msg, needle) ==
  \E i \in 1..(Len(msg) - Len(needle) + 1) :
    SubSeq(msg, i, i + Len(needle) - 1) = needle

MsgPassword == <<"No", "password", "given">>
MsgWorker == <<"Setting", "up", "fake", "worker", "failed">>
LoadErrors == {MsgPassword, MsgWorker}

\* ------------------------------------------------------------- documents
\* What the parser sees in a file once it loads: the page count, the kind
\* of the first pages (the others are blank) and the encryption metadata.
PageKinds == {"image", "blank", "broken"}
\* page sizes <<width, height>> in points (1/72 inch): 8 x 12 inches,
\* 14 x 25 inches and 28 x 28 inches
OrdinaryPage == <<576, 864>>
WidePage == <<1008, 1800>>
PosterPage == <<2016, 2016>>
SmallDocs ==
  UNION {[numPages : {n}, kinds : [1..n -> PageKinds], meta : {"plain"},
          pageSize : {OrdinaryPage}] :
           n \in 1..MaxPages}
EncryptedDoc ==
  [numPages |-> 1, kinds |-> <<"image">>, meta |-> "encrypted",
   pageSize |-> OrdinaryPage]
NoMetaDoc ==
  [numPages |-> 1, kinds |-> <<"image">>, meta |-> "error",
   pageSize |-> OrdinaryPage]
HugeDoc ==
  [numPages |-> MAX_PAGES + 1, kinds |-> <<"image">>, meta |-> "plain",
   pageSize |-> OrdinaryPage]
\* a text-only document of exactly the page ceiling
CeilingDoc ==
  [numPages |-> MAX_PAGES, kinds |-> <<>>, meta |-> "plain",
   pageSize |-> OrdinaryPage]
\* a scanned poster, and a text-only sheet that is large at 200 DPI only
PosterDoc ==
  [numPages |-> 1, kinds |-> <<"image">>, meta |-> "plain",
   pageSize |-> PosterPage]
WideTextDoc ==
  [numPages |-> 1, kinds |-> <<"blank">>, meta |-> "plain",
   pageSize |-> WidePage]
WideImageDoc ==
  [numPages |-> 1, kinds |-> <<"image">>, meta |-> "plain",
   pageSize |-> WidePage]
Docs == SmallDocs \cup {EncryptedDoc, NoMetaDoc, HugeDoc}

PageKind(doc, p) == IF p <= Len(doc.kinds) THEN doc.kinds[p] ELSE "blank"

\* ----------------------------------------------------------------- files
Junk(n) == IF n = 0 THEN <<>> ELSE <<Run(0, n)>>
Body == BytesOf(<<49, 46, 52>>)              \* '1.4'
SmallBuffers ==
  {Junk(j) \o h \o Body \o t :
     j \in 0..MaxJunk,
     h \in {<<>>, BytesOf(PDF_MAGIC), BytesOf(<<37, 80, 68, 70, 120>>)},
     t \in {<<>>, BytesOf(EOF_MARKER)}}
  \cup {<<>>, Junk(1) \o BytesOf(PDF_MAGIC)}
FarHeaderBuffer ==
  Junk(ScanWindow) \o BytesOf(PDF_MAGIC) \o Body \o BytesOf(EOF_MARKER)
EdgeHeaderBuffer ==
  Junk(ScanWindow - 1) \o BytesOf(PDF_MAGIC) \o Body \o BytesOf(EOF_MARKER)
\* a trailer marker that begins before the last 1024 bytes and ends in them
StraddleBuffer ==
  BytesOf(<<37, 80, 68, 70, 120>>) \o BytesOf(EOF_MARKER)
    \o <<Run(0, ScanWindow - 2)>>
CeilingBuffer == BytesOf(PDF_MAGIC) \o <<Run(0, MAX_FILE_SIZE - 5)>>
OverCeilingBuffer == BytesOf(PDF_MAGIC) \o <<Run(0, MAX_FILE_SIZE - 4)>>

\* file.name is kept as its extension, file.type as the MIME string
ToLowerCase(ext) == IF ext = "PDF" THEN "pdf" ELSE ext

MkFile(buf, ext, type, doc) ==
  [bytes |-> buf, size |-> ByteLength(buf), ext |-> ext, type |-> type,
   doc |-> doc]

Files ==
  {MkFile(b, "pdf", "application/pdf", d) : b \in SmallBuffers, d \in Docs}
  \cup {MkFile(b, e, t, EncryptedDoc) :
          b \in {BytesOf(PDF_MAGIC) \o Body \o BytesOf(EOF_MARKER), <<>>},
          e \in {"PDF", "txt"}, t \in {"", "application/pdf"}}
  \cup {MkFile(b, "pdf", "application/pdf", NoMetaDoc) :
          b \in {FarHeaderBuffer, EdgeHeaderBuffer, StraddleBuffer,
                 CeilingBuffer, OverCeilingBuffer}}
  \cup {MkFile(BytesOf(PDF_MAGIC) \o Body \o BytesOf(EOF_MARKER), "pdf",
               "application/pdf", d) :
          d \in {CeilingDoc, PosterDoc, WideTextDoc, WideImageDoc}}

\* ------------------------------------------------------ diagnostic record
NoDoc ==
  [numPages |-> 0, kinds |-> <<>>, meta |-> "none", pageSize |-> <<0, 0>>]
NoError == <<>>

\* the DiagnosticInfo literal built at the start of a run
NewDiagnostic(size, t) ==
  [fileSize |-> size, pageCount |-> 0, extractedImageCount |-> 0,
   attempts |-> <<>>, timestamp |-> t, duration |-> 0,
   errorCode |-> Undefined, autoRepairUsed |-> Undefined,
   pdfHeader |-> Undefined]

\* diagnostic.attempts.push(entry)
PushFront(diag, entry) == [diag EXCEPT !.attempts = <<entry>> \o @]
Push(diag, entry) == [diag EXCEPT !.attempts = Append(@, entry)]

\* assignment to an optional field of the record
SetField(diag, name, value) ==
  [f \in DOMAIN diag \cup {name} |-> IF f = name THEN value ELSE diag[f]]

\* progress percentages are fractions <<numerator, denominator>>
Pct(n) == <<n, 1>>
PctLeq(a, b) == a[1] * b[2] <= b[1] * a[2]

\* ------------------------------------------------------------ auto-repair
\* attemptPDFRepair: the returned buffer (repaired = FALSE for null) and the
\* entry it records;
\* t is attemptStart, and no suspension point lies inside the function.
RepairWithBothHeuristics(buf, t) ==
  [repaired |-> TRUE,
   buffer |-> SliceFrom(buf, Max(findPDFHeaderIndex(buf), 0))
                \o BytesOf(EOF_PATCH),
   entry |-> [method |-> "header_repair", success |-> TRUE,
              details |-> [removedBytes |-> Max(findPDFHeaderIndex(buf), 0)],
              timestamp |-> t, duration |-> 0]]
attemptPDFRepair(buf, t) ==
  LET hasPDFHeader == HasMagicAt(buf, 0)
      pdfHeaderIndex == findPDFHeaderIndex(buf)
  IN IF ~hasPDFHeader /\ pdfHeaderIndex > 0
     THEN [repaired |-> TRUE, buffer |-> SliceFrom(buf, pdfHeaderIndex),
           entry |-> [method |-> "header_repair", success |-> TRUE,
                      details |-> [removedBytes |-> pdfHeaderIndex],
                      timestamp |-> t, duration |-> 0]]
     ELSE IF ~findEOFMarker(buf)
     THEN [repaired |-> TRUE, buffer |-> buf \o BytesOf(EOF_PATCH),
           entry |-> [method |-> "eof_repair", success |-> TRUE,
                      details |-> [addedEOF |-> TRUE],
                      timestamp |-> t, duration |-> 0]]
     ELSE [repaired |-> FALSE, buffer |-> <<>>,
           entry |-> [method |-> "pdf_repair", success |-> FALSE,
                      error |-> <<"No", "repairs", "applicable">>,
                      timestamp |-> t, duration |-> 0]]

\* -------------------------------------------------------- recommendations
\* generateRecommendations: the list of canned hints for the record's code.
\* The extra hint for a format version above 1.7 is left out: pdfVersion is
\* '1.4' or 'unknown' for every buffer of Files.
generateRecommendations(diag) ==
  IF diag.errorCode = "ALL_METHODS_FAILED"
  THEN <<"save_as", "print_to_pdf", "refresh_reupload", "export_pdf14">>
  ELSE IF diag.errorCode = "PDF_LOAD_FAILED"
  THEN <<"save_as", "print_to_pdf", "export_pdf14">>
       \o (IF \E i \in 1..Len(diag.attempts) :
                /\ diag.attempts[i].method = "header_validation"
                /\ \A j \in 1..(i - 1) :
                     diag.attempts[j].method # "header_validation"
                /\ ~diag.attempts[i].success
           THEN <<"leading_data">> ELSE <<>>)
  ELSE <<>>

\* -------------------------------------------------------- page rendering
\* page.getViewport({scale}) with scale = num/den: <<width, height>>
Viewport(pageSize, num, den) ==
  <<(pageSize[1] * num) \div den, (pageSize[2] * num) \div den>>

\* viewport.width * viewport.height * 4
EstimatedMemory(viewport) == viewport[1] * viewport[2] * 4

\* An image of a server response; memory is width * height * 4 of the
\* bitmap drawn.
Item(p, format, memory) ==
  [pageNumber |-> p, format |-> format, memory |-> memory]

\* An ExtractedImage of the client passes, pushed at time t: the id is
\* `${file.name}-page-${pageNum}-${Date.now()}` and the filename
\* `${base}_page-${pageNum}.${ext}`.
FirstPageImage(p, format, memory, ext, t) ==
  [id |-> <<"page", 1, t>>, pageNumber |-> 1, format |-> format,
   memory |-> memory, filename |-> <<"page", 1, ext>>]
ExtractedImage(p, format, memory, ext, t) ==
  [id |-> <<"page", p, t>>, pageNumber |-> p, format |-> format,
   memory |-> memory, filename |-> <<"page", p, ext>>]

\* The image extractEmbeddedImages pushes for a page with an image: over
\* the ceiling the page is drawn at sqrt(MAX / estimate) of its own size
\* (the estimate was taken at scale 2, so the bitmap takes MAX / 4) and
\* encoded as JPEG, otherwise at scale 2 as PNG.
EmbeddedItem(doc, p, t) ==
  LET viewport == Viewport(doc.pageSize, 2, 1)
  IN IF EstimatedMemory(viewport) > MAX_MEMORY_PER_IMAGE
     THEN ExtractedImage(p, "JPEG", MAX_MEMORY_PER_IMAGE \div 4, "jpg", t)
     ELSE ExtractedImage(p, "PNG", EstimatedMemory(viewport), "png", t)

\* The image rasterizePages pushes: scale = dpi / 72 = 200 / 72; over the
\* ceiling useScale = sqrt(MAX / estimate) * scale, so the bitmap takes
\* MAX, and the format is JPEG.
RasterItem(doc, p, t) ==
  LET viewport == Viewport(doc.pageSize, 200, 72)
  IN IF EstimatedMemory(viewport) > MAX_MEMORY_PER_IMAGE
     THEN ExtractedImage(p, "JPEG", MAX_MEMORY_PER_IMAGE, "jpeg", t)
     ELSE ExtractedImage(p, "PNG", EstimatedMemory(viewport), "png", t)

\* The image simulateServerExtraction and the handler's
\* extractImagesUsingPDFJS push: always scale 2 and PNG.
ServerItem(doc, p) ==
  Item(p, "png", EstimatedMemory(Viewport(doc.pageSize, 2, 1)))

\* the document handle after await pdf.destroy()
KeepOpen(h) == h
Destroy(h) == "destroyed"

\* ------------------------------------------------------ load-strategy chain
LoadMethods ==
  <<"standard_load_with_worker", "load_with_recovery_worker",
    "load_ignore_errors_worker", "standard_load_no_worker",
    "load_with_recovery_no_worker", "load_minimal_no_worker">>

\* attempt.method.includes('no_worker')
IsNoWorker(method) ==
  method \in {"standard_load_no_worker", "load_with_recovery_no_worker",
              "load_minimal_no_worker"}

\* the value assigned to diagnostic.autoRepairUsed after a successful load
AutoRepairMut(method) == method
AutoRepairFor(method) ==
  IF method # "standard_load_with_worker" THEN method ELSE Undefined

\* the entry pushed for a load configuration that threw
FailedLoadEntry(method, err, start, end) ==
  [method |-> method, success |-> FALSE, error |-> err, errorStack |-> err,
   timestamp |-> start, duration |-> end - start]

\* the entry pushed for the load configuration that succeeded
SucceededLoadEntry(method, doc, start, end) ==
  [method |-> method, success |-> TRUE,
   details |-> [pages |-> doc.numPages, disableWorker |-> IsNoWorker(method)],
   timestamp |-> start, duration |-> end - start]

\* the terminal code chosen by the catch around tryLoadPDFWithFallbacks
ClassifyLoadError(msg) ==
  IF Includes(msg, <<"password">>) \/ Includes(msg, <<"encrypted">>)
  THEN "PDF_ENCRYPTED" ELSE "PDF_LOAD_FAILED"

\* ------------------------------------------------------------------ state
VARIABLES
  file,          \* the File handed to the operation (bytes, size, name, type)
  op,            \* the exported operation in progress
  pc,            \* its position (the suspension point it waits at)
  now,           \* Date.now()
  diagnostic,    \* the run's DiagnosticInfo
  arrayBuffer,   \* the buffer the parser is given (original or repaired)
  pdf,           \* the loaded document, NoDoc when none
  handle,        \* "none", "open" or "destroyed": state of the document handle
  attemptIdx,    \* index of the next load configuration
  lastError,     \* lastError of tryLoadPDFWithFallbacks
  images,        \* items collected by the current pass
  pageNum,       \* loop variable of the current pass
  progressLog,   \* percentages passed to onProgress, in call order
  outcome,       \* how the operation ended
  fetchCalls,    \* requests sent to /api/extract-images
  simulateCalls, \* invocations of simulateServerExtraction
  workerSrc,     \* pdfjsLib.GlobalWorkerOptions.workerSrc (process-wide)
  peer           \* a second run of extractImagesFromPDF in the same process

vars == <<file, op, pc, now, diagnostic, arrayBuffer, pdf, handle, attemptIdx,
          lastError, images, pageNum, progressLog, outcome, fetchCalls,
          simulateCalls, workerSrc, peer>>

remoteVars == <<fetchCalls, simulateCalls, workerSrc, peer>>
loadVars == <<attemptIdx, lastError>>
passVars == <<images, pageNum>>
docVars == <<pdf, handle>>

\* the two URLs written to GlobalWorkerOptions.workerSrc: the asset the
\* build emits for the ?url import of pdf-worker-setup, and the address
\* new URL('pdfjs-dist/build/pdf.worker.min.mjs', import.meta.url) gives
BundledWorkerSrc == "bundled_asset"
ModuleRelativeWorkerSrc == "module_relative"

NoOutcome == [kind |-> "none"]
ThrownRaw(code) == [kind |-> "thrown", code |-> "Error"]
Thrown(code) == [kind |-> "thrown", code |-> code]
ReturnedByClock(imgs, pages) ==
  [kind |-> "returned", totalPages |-> pages,
   images |-> IF now % 2 = 0 THEN imgs ELSE Tail(imgs)]
Returned(imgs, pages) ==
  [kind |-> "returned", images |-> imgs, totalPages |-> pages]

Init ==
  /\ file \in Files
  /\ op = "none"
  /\ pc = "idle"
  /\ now = 0
  /\ diagnostic = NewDiagnostic(0, 0)
  /\ arrayBuffer = <<>>
  /\ pdf = NoDoc
  /\ handle = "none"
  /\ attemptIdx = 0
  /\ lastError = NoError
  /\ images = <<>>
  /\ pageNum = 0
  /\ progressLog = <<>>
  /\ outcome = NoOutcome
  /\ fetchCalls = 0
  /\ simulateCalls = 0
  /\ workerSrc = BundledWorkerSrc
  /\ peer = [pc |-> "idle", loadedWith |-> Undefined]

\* -------------------------------------------------- extractImagesFromPDF
\* the size precheck
AtOrOverSizeLimit(size) == size >= MAX_FILE_SIZE
ExceedsSizeLimit(size) == size > MAX_FILE_SIZE

\* Entry up to the first suspension point: the size and type prechecks.
StartExtract ==
  /\ pc = "idle"
  /\ op' = "extract"
  /\ UNCHANGED <<file, arrayBuffer, docVars, loadVars, passVars, remoteVars>>
  /\ LET d0 == NewDiagnostic(file.size, now)
     IN IF ExceedsSizeLimit(file.size)
        THEN /\ diagnostic' = [d0 EXCEPT !.errorCode = "FILE_TOO_LARGE"]
             /\ progressLog' = <<Pct(5)>>
             /\ outcome' = Thrown("FILE_TOO_LARGE")
             /\ pc' = "done"
             /\ now' = now
        ELSE IF file.type # "application/pdf" /\ ToLowerCase(file.ext) # "pdf"
        THEN /\ diagnostic' = [d0 EXCEPT !.errorCode = "NOT_PDF"]
             /\ progressLog' = <<Pct(5)>>
             /\ outcome' = Thrown("NOT_PDF")
             /\ pc' = "done"
             /\ now' = now
        ELSE /\ diagnostic' = d0
             /\ progressLog' = <<Pct(5), Pct(10)>>
             /\ outcome' = outcome
             /\ pc' = "reading"
             /\ now' = now + 1

\* file.arrayBuffer() rejects: the inner catch classifies UNKNOWN_ERROR.
ReadFails ==
  /\ pc = "reading" /\ op = "extract"
  /\ diagnostic' = [diagnostic EXCEPT !.errorCode = "UNKNOWN_ERROR",
                                      !.duration = now - diagnostic.timestamp]
  /\ outcome' = Thrown("UNKNOWN_ERROR")
  /\ pc' = "done"
  /\ UNCHANGED <<file, op, now, arrayBuffer, docVars, loadVars, passVars,
                 progressLog, remoteVars>>

\* The buffer is read: fingerprint, header validation, repair, and the call
\* of tryLoadPDFWithFallbacks up to its await of initializePDFWorker.
ValidateHeader ==
  /\ pc = "reading" /\ op = "extract"
  /\ now' = now + 2
  /\ UNCHANGED <<file, op, docVars, loadVars, passVars, remoteVars>>
  /\ LET buf == file.bytes
         hv == validatePDFHeader(buf)
         d1 == [diagnostic EXCEPT !.pdfHeader = hv.header]
     IN IF hv.valid
        THEN /\ diagnostic' =
                  Push(d1, [method |-> "header_validation", success |-> TRUE,
                            timestamp |-> now', duration |-> 0])
             /\ arrayBuffer' = buf
             /\ progressLog' = progressLog \o <<Pct(15), Pct(25)>>
             /\ outcome' = outcome
             /\ pc' = "workerInit"
        ELSE LET d2 == Push(d1, [method |-> "header_validation",
                                 success |-> FALSE,
                                 error |-> <<"Invalid", "PDF", "header">>,
                                 timestamp |-> now', duration |-> 0])
                 rep == attemptPDFRepair(buf, now')
                 d3 == Push(d2, rep.entry)
             IN IF rep.repaired
                THEN LET rv == validatePDFHeader(rep.buffer)
                     IN /\ arrayBuffer' = rep.buffer
                        /\ diagnostic' =
                             (IF rv.valid
                              THEN Push([d3 EXCEPT !.pdfHeader = rv.header],
                                        [method |->
                                           "header_validation_after_repair",
                                         success |-> TRUE,
                                         timestamp |-> now', duration |-> 0])
                              ELSE d3)
                        /\ progressLog' =
                             progressLog \o <<Pct(15), Pct(20), Pct(25)>>
                        /\ outcome' = outcome
                        /\ pc' = "workerInit"
                ELSE LET d4 == [d3 EXCEPT !.errorCode = "INVALID_PDF",
                                          !.duration = now' - d3.timestamp]
                     IN /\ arrayBuffer' = buf
                        /\ diagnostic' =
                             SetField(d4, "recommendations",
                                      generateRecommendations(d4))
                        /\ progressLog' = progressLog \o <<Pct(15), Pct(20)>>
                        /\ outcome' = Thrown("INVALID_PDF")
                        /\ pc' = "done"

\* tryLoadPDFWithFallbacks: initializePDFWorker resolves and is recorded.
WorkerInit ==
  /\ pc = "workerInit" /\ op = "extract"
  /\ now' = now + 1
  /\ \E ok \in BOOLEAN :
       diagnostic' =
         Push(diagnostic,
              IF ok
              THEN [method |-> "worker_initialization", success |-> TRUE,
                    timestamp |-> now', duration |-> 0]
              ELSE [method |-> "worker_initialization", success |-> FALSE,
                    error |-> MsgWorker, timestamp |-> now', duration |-> 0])
  /\ workerSrc' = BundledWorkerSrc
  /\ attemptIdx' = 1
  /\ lastError' = NoError
  /\ pc' = "loading"
  /\ UNCHANGED <<file, op, arrayBuffer, docVars, passVars, progressLog,
                 outcome, fetchCalls, simulateCalls, peer>>

\* what the loop does after recording a success: `return pdf`
ContinueChain(idx) == [pc |-> "loading", attemptIdx |-> idx + 1]
ReturnFromChain(idx) == [pc |-> "loaded", attemptIdx |-> idx]

\* what the catch of the loop keeps in lastError
KeepFirstError(prev, err) == IF prev = NoError THEN err ELSE prev
NextLastError(prev, err) == err

\* One configuration of the chain loads the document.
LoadSucceeds ==
  /\ pc = "loading" /\ op = "extract"
  /\ attemptIdx \in 1..Len(LoadMethods)
  /\ now' = now + 1
  /\ LET method == LoadMethods[attemptIdx]
         d1 == Push(diagnostic,
                    SucceededLoadEntry(method, file.doc, now, now'))
     IN diagnostic' = [d1 EXCEPT !.autoRepairUsed = AutoRepairFor(method)]
  /\ pdf' = file.doc
  /\ handle' = "open"
  /\ pc' = ReturnFromChain(attemptIdx).pc
  /\ attemptIdx' = ReturnFromChain(attemptIdx).attemptIdx
  /\ UNCHANGED <<file, op, arrayBuffer, lastError, passVars, progressLog,
                 outcome, remoteVars>>

\* One configuration of the chain throws; the loop goes on to the next.
LoadFails ==
  /\ pc = "loading" /\ op = "extract"
  /\ attemptIdx \in 1..Len(LoadMethods)
  /\ now' = now + 1
  /\ \E err \in LoadErrors :
       /\ diagnostic' =
            Push(diagnostic,
                 FailedLoadEntry(LoadMethods[attemptIdx], err, now, now'))
       /\ lastError' = NextLastError(lastError, err)
  /\ attemptIdx' = attemptIdx + 1
  /\ UNCHANGED <<file, op, pc, arrayBuffer, docVars, passVars, progressLog,
                 outcome, remoteVars>>

\* The list is exhausted: `throw lastError`, caught and classified by
\* extractImagesFromPDF; `sent` requests go to the remote endpoint (none).
ChainExhausted(sent) ==
  /\ pc = "loading" /\ op = "extract"
  /\ attemptIdx > Len(LoadMethods)
  /\ LET code == ClassifyLoadError(lastError)
         d1 == [diagnostic EXCEPT !.errorCode = code,
                                  !.duration = now - diagnostic.timestamp]
         d2 == SetField(d1, "errorMessage",
                        IF code = "PDF_ENCRYPTED"
                        THEN <<"PDF", "is", "password", "protected">>
                        ELSE lastError)
     IN /\ diagnostic' =
             (IF code = "PDF_ENCRYPTED" THEN d2
              ELSE SetField(d2, "recommendations",
                            generateRecommendations(d2)))
        /\ outcome' = Thrown(code)
  /\ fetchCalls' = fetchCalls + sent
  /\ pc' = "done"
  /\ UNCHANGED <<file, op, now, arrayBuffer, docVars, loadVars, passVars,
                 progressLog, simulateCalls, workerSrc, peer>>

LoadExhaustedThenRemote == ChainExhausted(1)
LoadExhausted == ChainExhausted(0)

\* the page-count check
AtOrOverPageLimit(n) == n >= MAX_PAGES
ExceedsPageLimit(n) == n > MAX_PAGES

\* Back in extractImagesFromPDF with the document: the page-count ceiling,
\* up to the await of checkIfEncrypted.
PageLimitCheck ==
  /\ pc = "loaded" /\ op = "extract"
  /\ LET d1 == [diagnostic EXCEPT !.pageCount = pdf.numPages]
     IN IF ExceedsPageLimit(pdf.numPages)
        THEN /\ diagnostic' =
                  [d1 EXCEPT !.errorCode = "TOO_MANY_PAGES",
                             !.duration = now - diagnostic.timestamp]
             /\ outcome' = Thrown("TOO_MANY_PAGES")
             /\ pc' = "done"
        ELSE /\ diagnostic' = d1
             /\ outcome' = outcome
             /\ pc' = "encryptionCheck"
  /\ UNCHANGED <<file, op, now, arrayBuffer, docVars, loadVars, passVars,
                 progressLog, remoteVars>>

\* checkIfEncrypted resolves (a metadata failure counts as not encrypted);
\* an unencrypted document enters extractEmbeddedImages.
EncryptionCheck ==
  /\ pc = "encryptionCheck" /\ op = "extract"
  /\ now' = now + 1
  /\ IF pdf.meta = "encrypted"
     THEN /\ diagnostic' =
               [Push(diagnostic,
                     [method |-> "encryption_check", success |-> FALSE,
                      error |-> <<"PDF", "is", "encrypted">>,
                      timestamp |-> now', duration |-> 0])
                EXCEPT !.errorCode = "PDF_ENCRYPTED",
                       !.duration = now' - diagnostic.timestamp]
          /\ outcome' = Thrown("PDF_ENCRYPTED")
          /\ pc' = "done"
          /\ UNCHANGED <<passVars, progressLog>>
     ELSE /\ images' = <<>>
          /\ pageNum' = 1
          /\ progressLog' = Append(progressLog, Pct(20))
          /\ pc' = "embedded"
          /\ UNCHANGED <<diagnostic, outcome>>
  /\ UNCHANGED <<file, op, arrayBuffer, docVars, loadVars, remoteVars>>

\* the loop variable after the per-page catch: the loop goes on
AbortPass(p, total) == total + 1
AfterPageError(p, total) == p + 1

\* hasImages: the page's operator list holds an image-paint operator
RendersAnyPage(kind) == kind # "broken"
HasImages(kind) == kind = "image"

\* extractEmbeddedImages, one iteration of the page loop: a page with an
\* image-paint operator is rendered and emitted; a page that throws is
\* skipped without a progress report.
EmbeddedPage ==
  /\ pc = "embedded" /\ op = "extract"
  /\ pageNum <= pdf.numPages
  /\ now' = now + 1
  /\ LET kind == PageKind(pdf, pageNum)
         totalPages == pdf.numPages
     IN /\ images' = (IF HasImages(kind)
                      THEN Append(images, EmbeddedItem(pdf, pageNum, now'))
                      ELSE images)
        /\ progressLog' =
             (IF kind = "broken" THEN progressLog
              ELSE Append(progressLog,
                          <<20 * totalPages + 50 * pageNum, totalPages>>))
  /\ pageNum' = (IF PageKind(pdf, pageNum) = "broken"
                 THEN AfterPageError(pageNum, pdf.numPages)
                 ELSE pageNum + 1)
  /\ UNCHANGED <<file, op, pc, diagnostic, arrayBuffer, docVars, loadVars,
                 outcome, remoteVars>>

\* the bookkeeping before a successful return: the item count and the
\* run's duration
RecordDurationOnly(diag, n, t) ==
  [diag EXCEPT !.duration = t - diag.timestamp]
RecordSuccess(diag, n, t) ==
  [diag EXCEPT !.extractedImageCount = n, !.duration = t - diag.timestamp]

\* the test on the embedded pass's output that ends the run
EmbeddedAlways(n) == n >= 0
EmbeddedFound(n) == n > 0

\* The embedded pass returns: its entry is recorded; with items the run
\* returns, without it enters rasterizePages.
EmbeddedDone ==
  /\ pc = "embedded" /\ op = "extract"
  /\ pageNum > pdf.numPages
  /\ LET d1 == Push(diagnostic,
                    [method |-> "embedded_extraction", success |-> TRUE,
                     imageCount |-> Len(images),
                     timestamp |-> now, duration |-> 0])
     IN IF EmbeddedFound(Len(images))
        THEN /\ diagnostic' =
                  RecordSuccess(d1, Len(images), now)
             /\ progressLog' = Append(progressLog, Pct(100))
             /\ outcome' = Returned(images, pdf.numPages)
             /\ pc' = "done"
             /\ UNCHANGED passVars
        ELSE /\ diagnostic' = d1
             /\ progressLog' = progressLog \o <<Pct(70), Pct(75)>>
             /\ outcome' = outcome
             /\ pc' = "raster"
             /\ images' = <<>>
             /\ pageNum' = 1
  /\ UNCHANGED <<file, op, now, arrayBuffer, docVars, loadVars, remoteVars>>

\* the page count rasterizePages works through
RasterTotal(doc) ==
  Min(doc.numPages, Min(doc.numPages, MaxRasterPages))

\* rasterizePages, one iteration of the page loop.
RasterPage ==
  /\ pc = "raster" /\ op = "extract"
  /\ pageNum <= RasterTotal(pdf)
  /\ now' = now + 1
  /\ LET kind == PageKind(pdf, pageNum)
         totalPages == RasterTotal(pdf)
     IN IF kind = "broken"
        THEN UNCHANGED <<images, progressLog>>
        ELSE /\ images' = Append(images, RasterItem(pdf, pageNum, now'))
             /\ progressLog' =
                  Append(progressLog,
                         <<75 * totalPages + 20 * pageNum, totalPages>>)
  /\ pageNum' = (IF PageKind(pdf, pageNum) = "broken"
                 THEN AfterPageError(pageNum, RasterTotal(pdf))
                 ELSE pageNum + 1)
  /\ UNCHANGED <<file, op, pc, diagnostic, arrayBuffer, docVars, loadVars,
                 outcome, remoteVars>>

\* the test on the rasterization pass's output that ends the run
RasterAlways(n) == n >= 0
RasterProduced(n) == n > 0

\* The rasterization pass returns: with items the run returns, without the
\* run ends in NO_IMAGES.
RasterDone ==
  /\ pc = "raster" /\ op = "extract"
  /\ pageNum > RasterTotal(pdf)
  /\ LET d1 == Push(diagnostic,
                    [method |-> "rasterization", success |-> TRUE,
                     imageCount |-> Len(images),
                     details |-> [dpi |-> 200,
                                  maxPages |-> Min(pdf.numPages,
                                                   MaxRasterPages)],
                     timestamp |-> now, duration |-> 0])
     IN IF RasterProduced(Len(images))
        THEN /\ diagnostic' =
                  RecordSuccess(d1, Len(images), now)
             /\ progressLog' = Append(progressLog, Pct(100))
             /\ outcome' = Returned(images, pdf.numPages)
        ELSE /\ diagnostic' =
                  [d1 EXCEPT !.errorCode = "NO_IMAGES",
                             !.duration = now - diagnostic.timestamp]
             /\ progressLog' = progressLog
             /\ outcome' = Thrown("NO_IMAGES")
  /\ pc' = "done"
  /\ UNCHANGED <<file, op, now, arrayBuffer, docVars, loadVars, passVars,
                 remoteVars>>

\* --------------------------------------------- uploadForServerExtraction
ErrorStatuses == {"400", "413", "500", "501"}
\* the body the placeholder handler sends with its 501
PlaceholderBody ==
  <<"Server-side", "extraction", "not", "yet", "implemented">>
ErrorBodies ==
  {<<"Not", "Implemented">>, <<"upstream", "answered", "404">>,
   PlaceholderBody}
FetchErrors ==
  {<<"Failed", "to", "fetch">>,
   <<"NetworkError", "when", "attempting", "to", "fetch", "resource">>,
   <<"The", "operation", "was", "aborted">>}

\* the catch of uploadForServerExtraction: which errors fall back locally
FallsBackToSimulation(msg) ==
  \/ Includes(msg, <<"Failed", "to", "fetch">>)
  \/ Includes(msg, <<"NetworkError">>)
  \/ Includes(msg, <<"404">>)

ThrownError(msg) == [kind |-> "thrown", message |-> msg]
Responded(result) == [kind |-> "returned", result |-> result]

\* the Partial<DiagnosticInfo> literal of simulateServerExtraction
NewSimDiagnostic(size, t) ==
  [fileSize |-> size, pageCount |-> 0, extractedImageCount |-> 0,
   attempts |-> <<>>, timestamp |-> t, errorCode |-> Undefined]

\* The form is built and the POST is sent.
StartUpload ==
  /\ pc = "idle"
  /\ op' = "upload"
  /\ pc' = "fetching"
  /\ fetchCalls' = fetchCalls + 1
  /\ now' = now + 1
  /\ UNCHANGED <<file, diagnostic, arrayBuffer, docVars, loadVars, passVars,
                 progressLog, outcome, simulateCalls, workerSrc, peer>>

\* simulateServerExtraction is entered with the file's bytes.
EnterSimulationAgain ==
  /\ simulateCalls' = simulateCalls + 2
  /\ arrayBuffer' = file.bytes
  /\ diagnostic' = NewSimDiagnostic(ByteLength(file.bytes), now')
  /\ workerSrc' = ModuleRelativeWorkerSrc
  /\ outcome' = outcome
  /\ pc' = "simLoading"
EnterSimulation ==
  /\ simulateCalls' = simulateCalls + 1
  /\ arrayBuffer' = file.bytes
  /\ diagnostic' = NewSimDiagnostic(ByteLength(file.bytes), now')
  /\ workerSrc' = ModuleRelativeWorkerSrc
  /\ outcome' = outcome
  /\ pc' = "simLoading"

\* an error reaches the catch block: fall back or rethrow
CatchFetchError(msg) ==
  IF FallsBackToSimulation(msg)
  THEN EnterSimulation
  ELSE /\ outcome' = ThrownError(msg)
       /\ pc' = "done"
       /\ UNCHANGED <<diagnostic, arrayBuffer, simulateCalls, workerSrc>>

\* The endpoint answers 200: the parsed body is returned as it is.
FetchOk ==
  /\ pc = "fetching" /\ op = "upload"
  /\ now' = now + 1
  /\ \E result \in {[success |-> TRUE, imageCount |-> 1],
                    [success |-> FALSE, imageCount |-> 0]} :
       outcome' = Responded(result)
  /\ pc' = "done"
  /\ UNCHANGED <<file, op, diagnostic, arrayBuffer, docVars, loadVars,
                 passVars, progressLog, remoteVars>>

\* The endpoint answers 404: local fallback.
FetchNotFound ==
  /\ pc = "fetching" /\ op = "upload"
  /\ now' = now + 2
  /\ EnterSimulation
  /\ UNCHANGED <<file, op, docVars, loadVars, passVars, progressLog,
                 fetchCalls, peer>>

\* The endpoint answers another non-OK status: an Error carrying the status
\* and the body text is thrown into the catch block.
FetchNotOk ==
  /\ pc = "fetching" /\ op = "upload"
  /\ now' = now + 2
  /\ \E status \in ErrorStatuses, body \in ErrorBodies :
       CatchFetchError(<<"Server", "returned", status>> \o body)
  /\ UNCHANGED <<file, op, docVars, loadVars, passVars, progressLog,
                 fetchCalls, peer>>

\* fetch itself rejects.
FetchRejects ==
  /\ pc = "fetching" /\ op = "upload"
  /\ now' = now + 2
  /\ \E msg \in FetchErrors : CatchFetchError(msg)
  /\ UNCHANGED <<file, op, docVars, loadVars, passVars, progressLog,
                 fetchCalls, peer>>

\* ----------------------------------------------- simulateServerExtraction
\* the classification written by the catch of simulateServerExtraction
SimFailureCode == "SERVER_EXTRACTION_FAILED"

\* getDocument rejects: the failure is returned, not thrown.
SimLoadFails ==
  /\ pc = "simLoading" /\ op = "upload"
  /\ now' = now + 1
  /\ \E err \in LoadErrors :
       /\ diagnostic' =
            [Push(diagnostic,
                  [method |-> "server_extraction", success |-> FALSE,
                   error |-> err, errorStack |-> err, timestamp |-> now'])
             EXCEPT !.errorCode = SimFailureCode]
       /\ outcome' = Responded([success |-> FALSE, error |-> err])
  /\ pc' = "done"
  /\ UNCHANGED <<file, op, arrayBuffer, docVars, loadVars, passVars,
                 progressLog, remoteVars>>

\* getDocument resolves.
SimLoadSucceeds ==
  /\ pc = "simLoading" /\ op = "upload"
  /\ now' = now + 1
  /\ pdf' = file.doc
  /\ handle' = "open"
  /\ diagnostic' =
       Push([diagnostic EXCEPT !.pageCount = file.doc.numPages],
            [method |-> "server_pdf_load", success |-> TRUE,
             timestamp |-> now', duration |-> 0])
  /\ images' = <<>>
  /\ pageNum' = 1
  /\ pc' = "simPages"
  /\ UNCHANGED <<file, op, arrayBuffer, loadVars, progressLog, outcome,
                 remoteVars>>

\* one iteration of the page loop of simulateServerExtraction
SimPage ==
  /\ pc = "simPages" /\ op = "upload"
  /\ pageNum <= Min(pdf.numPages, SimMaxPages)
  /\ now' = now + 1
  /\ images' = (IF PageKind(pdf, pageNum) = "image"
                THEN Append(images, ServerItem(pdf, pageNum))
                ELSE images)
  /\ pageNum' = pageNum + 1
  /\ UNCHANGED <<file, op, pc, diagnostic, arrayBuffer, docVars, loadVars,
                 progressLog, outcome, remoteVars>>

\* the loop is over: the document is destroyed and the result returned
SimDone ==
  /\ pc = "simPages" /\ op = "upload"
  /\ pageNum > Min(pdf.numPages, SimMaxPages)
  /\ now' = now + 1
  /\ handle' = Destroy(handle)
  /\ diagnostic' =
       Push([diagnostic EXCEPT !.extractedImageCount = Len(images)],
            [method |-> "server_extraction_complete", success |-> TRUE,
             imageCount |-> Len(images), timestamp |-> now',
             duration |-> now' - diagnostic.attempts[1].timestamp])
  /\ outcome' = Responded([success |-> TRUE, imageCount |-> Len(images)])
  /\ pc' = "done"
  /\ UNCHANGED <<file, op, arrayBuffer, pdf, loadVars, passVars, progressLog,
                 remoteVars>>

\* ------------------------------------------- handler (remote endpoint)
HandlerLoadMethods ==
  <<"server_standard_load", "server_load_with_recovery",
    "server_load_minimal">>

\* what a request carries: another method, a POST without the 'pdf' field,
\* a POST with the file
HandlerRequests == {"GET", "POST_EMPTY", "POST_PDF"}

\* the DiagnosticInfo literal of the handler (errorCode is optional)
NewHandlerDiagnostic(size, t) ==
  [fileSize |-> size, pageCount |-> 0, extractedImageCount |-> 0,
   attempts |-> <<>>, timestamp |-> t, duration |-> 0]

\* new Response(JSON.stringify(body), {status})
Response(status, body) == [kind |-> "response", status |-> status,
                           body |-> body]

\* the body of every answer built after the diagnostic exists
Envelope(ok, diag) ==
  [success |-> ok, error |-> ~ok, diagnostic |-> diag]

\* Entry: the method check, the form, the diagnostic and the size check.
HandlerStart ==
  /\ pc = "idle"
  /\ op' = "handler"
  /\ UNCHANGED <<file, arrayBuffer, docVars, loadVars, passVars, progressLog,
                 remoteVars>>
  /\ \E req \in HandlerRequests :
       IF req = "GET"
       THEN /\ outcome' = Response(405, [error |-> TRUE])
            /\ pc' = "done"
            /\ UNCHANGED <<now, diagnostic>>
       ELSE /\ now' = now + 1
            /\ IF req = "POST_EMPTY"
               THEN /\ outcome' = Response(400, [error |-> TRUE])
                    /\ pc' = "done"
                    /\ UNCHANGED diagnostic
               ELSE LET d0 == NewHandlerDiagnostic(file.size, now)
                    IN IF file.size > HANDLER_MAX_FILE_SIZE
                       THEN LET d1 == [SetField(d0, "errorCode",
                                                "FILE_TOO_LARGE")
                                       EXCEPT !.duration = now' - now]
                            IN /\ diagnostic' = d1
                               /\ outcome' = Response(413, Envelope(FALSE, d1))
                               /\ pc' = "done"
                       ELSE /\ diagnostic' = d0
                            /\ outcome' = outcome
                            /\ pc' = "hReading"

\* The buffer is read and its header validated; a valid header enters the
\* handler's own tryLoadPDFWithFallbacks.
HandlerValidate ==
  /\ pc = "hReading" /\ op = "handler"
  /\ now' = now + 2
  /\ arrayBuffer' = file.bytes
  /\ LET hv == validatePDFHeader(file.bytes)
         d1 == SetField(diagnostic, "pdfHeader", hv.header)
     IN IF ~hv.valid
        THEN LET d2 == [SetField(d1, "errorCode", "INVALID_PDF")
                        EXCEPT !.duration = now' - diagnostic.timestamp]
             IN /\ diagnostic' = d2
                /\ outcome' = Response(400, Envelope(FALSE, d2))
                /\ pc' = "done"
                /\ UNCHANGED loadVars
        ELSE /\ diagnostic' = d1
             /\ outcome' = outcome
             /\ pc' = "hLoading"
             /\ attemptIdx' = 1
             /\ lastError' = NoError
  /\ UNCHANGED <<file, op, docVars, passVars, progressLog, remoteVars>>

\* One configuration of the handler's chain loads the document.
HandlerLoadSucceeds ==
  /\ pc = "hLoading" /\ op = "handler"
  /\ attemptIdx \in 1..Len(HandlerLoadMethods)
  /\ now' = now + 1
  /\ diagnostic' =
       Push(diagnostic,
            [method |-> HandlerLoadMethods[attemptIdx], success |-> TRUE,
             details |-> [pages |-> file.doc.numPages],
             timestamp |-> now, duration |-> now' - now])
  /\ pdf' = file.doc
  /\ handle' = "open"
  /\ pc' = "hLoaded"
  /\ UNCHANGED <<file, op, arrayBuffer, loadVars, passVars, progressLog,
                 outcome, remoteVars>>

\* One configuration of the handler's chain throws.
HandlerLoadFails ==
  /\ pc = "hLoading" /\ op = "handler"
  /\ attemptIdx \in 1..Len(HandlerLoadMethods)
  /\ now' = now + 1
  /\ \E err \in LoadErrors :
       /\ diagnostic' =
            Push(diagnostic,
                 FailedLoadEntry(HandlerLoadMethods[attemptIdx], err,
                                 now, now'))
       /\ lastError' = err
  /\ attemptIdx' = attemptIdx + 1
  /\ UNCHANGED <<file, op, pc, arrayBuffer, docVars, passVars, progressLog,
                 outcome, remoteVars>>

\* The handler's chain is exhausted: lastError reaches the handler's catch.
HandlerLoadExhausted ==
  /\ pc = "hLoading" /\ op = "handler"
  /\ attemptIdx > Len(HandlerLoadMethods)
  /\ LET d1 == [SetField(SetField(diagnostic, "errorCode", "SERVER_ERROR"),
                         "errorMessage", lastError)
                EXCEPT !.duration = now - diagnostic.timestamp]
     IN /\ diagnostic' = d1
        /\ outcome' = Response(500, Envelope(FALSE, d1))
  /\ pc' = "done"
  /\ UNCHANGED <<file, op, now, arrayBuffer, docVars, loadVars, passVars,
                 progressLog, remoteVars>>

\* Back in the handler with the document: the page-count ceiling.
HandlerPageLimit ==
  /\ pc = "hLoaded" /\ op = "handler"
  /\ LET d1 == [diagnostic EXCEPT !.pageCount = pdf.numPages]
     IN IF pdf.numPages > HANDLER_MAX_PAGES
        THEN LET d2 == [SetField(d1, "errorCode", "TOO_MANY_PAGES")
                        EXCEPT !.duration = now - diagnostic.timestamp]
             IN /\ diagnostic' = d2
                /\ handle' = Destroy(handle)
                /\ now' = now + 1
                /\ outcome' = Response(413, Envelope(FALSE, d2))
                /\ pc' = "done"
                /\ UNCHANGED passVars
        ELSE /\ diagnostic' = d1
             /\ images' = <<>>
             /\ pageNum' = 1
             /\ pc' = "hPages"
             /\ UNCHANGED <<handle, now, outcome>>
  /\ UNCHANGED <<file, op, arrayBuffer, pdf, loadVars, progressLog,
                 remoteVars>>

\* extractImagesUsingPDFJS, one iteration: every page is rendered as PNG.
HandlerPage ==
  /\ pc = "hPages" /\ op = "handler"
  /\ pageNum <= Min(pdf.numPages, HANDLER_MAX_PAGES)
  /\ now' = now + 1
  /\ images' = (IF PageKind(pdf, pageNum) = "broken" THEN images
                ELSE Append(images, ServerItem(pdf, pageNum)))
  /\ pageNum' = pageNum + 1
  /\ UNCHANGED <<file, op, pc, diagnostic, arrayBuffer, docVars, loadVars,
                 progressLog, outcome, remoteVars>>

\* The loop is over: the entry is recorded, the document destroyed and the
\* answer built.
HandlerDone ==
  /\ pc = "hPages" /\ op = "handler"
  /\ pageNum > Min(pdf.numPages, HANDLER_MAX_PAGES)
  /\ now' = now + 1
  /\ handle' = Destroy(handle)
  /\ LET total == Min(pdf.numPages, HANDLER_MAX_PAGES)
         d1 == [Push(diagnostic,
                     [method |-> "server_pdfjs_extraction", success |-> TRUE,
                      imageCount |-> Len(images),
                      timestamp |-> now - total, duration |-> total])
                EXCEPT !.extractedImageCount = Len(images),
                       !.duration = now - diagnostic.timestamp]
     IN IF Len(images) = 0
        THEN LET d2 == SetField(d1, "errorCode", "NO_IMAGES")
             IN /\ diagnostic' = d2
                /\ outcome' = Response(200, Envelope(FALSE, d2))
        ELSE /\ diagnostic' = d1
             /\ outcome' = Response(200, [success |-> TRUE,
                                          images |-> images,
                                          diagnostic |-> d1])
  /\ pc' = "done"
  /\ UNCHANGED <<file, op, arrayBuffer, pdf, loadVars, passVars, progressLog,
                 remoteVars>>

\* ---------------------------------------------------------- specification
Next ==
  \/ StartExtract
  \/ ReadFails
  \/ ValidateHeader
  \/ WorkerInit
  \/ LoadSucceeds
  \/ LoadFails
  \/ LoadExhausted
  \/ PageLimitCheck
  \/ EncryptionCheck
  \/ EmbeddedPage
  \/ EmbeddedDone
  \/ RasterPage
  \/ RasterDone
  \/ StartUpload
  \/ FetchOk
  \/ FetchNotFound
  \/ FetchNotOk
  \/ FetchRejects
  \/ SimLoadFails
  \/ SimLoadSucceeds
  \/ SimPage
  \/ SimDone
  \/ HandlerStart
  \/ HandlerValidate
  \/ HandlerLoadSucceeds
  \/ HandlerLoadFails
  \/ HandlerLoadExhausted
  \/ HandlerPageLimit
  \/ HandlerPage
  \/ HandlerDone

Spec == Init /\ [][Next]_vars

\* --------------------------------------------------- two concurrent runs
\* A second run of extractImagesFromPDF whose awaits interleave with the
\* first run's: the steps of it that write or read process-wide state.
runVars == <<file, op, pc, now, diagnostic, arrayBuffer, pdf, handle,
             attemptIdx, lastError, images, pageNum, progressLog, outcome,
             fetchCalls, simulateCalls>>

\* its tryLoadPDFWithFallbacks awaits initializePDFWorker
PeerWorkerInit ==
  /\ peer.pc = "idle"
  /\ workerSrc' = BundledWorkerSrc
  /\ peer' = [peer EXCEPT !.pc = "loading"]
  /\ UNCHANGED runVars

\* its first getDocument starts the worker named by the global option
PeerLoad ==
  /\ peer.pc = "loading"
  /\ peer' = [pc |-> "loaded", loadedWith |-> workerSrc]
  /\ UNCHANGED <<runVars, workerSrc>>

NextPair ==
  \/ StartUpload
  \/ FetchOk
  \/ FetchNotFound
  \/ FetchNotOk
  \/ FetchRejects
  \/ SimLoadFails
  \/ SimLoadSucceeds
  \/ SimPage
  \/ SimDone
  \/ PeerWorkerInit
  \/ PeerLoad

SpecPair == Init /\ [][NextPair]_vars

\* The settling of the fetch promise is the remote endpoint's doing; every
\* other step is taken by the program and the local parser, which run to
\* completion once enabled.
EndpointAnswers == FetchOk \/ FetchNotFound \/ FetchNotOk \/ FetchRejects

ProgramStep ==
  \/ StartExtract \/ ReadFails \/ ValidateHeader \/ WorkerInit
  \/ LoadSucceeds \/ LoadFails \/ LoadExhausted
  \/ PageLimitCheck \/ EncryptionCheck
  \/ EmbeddedPage \/ EmbeddedDone \/ RasterPage \/ RasterDone
  \/ StartUpload
  \/ SimLoadFails \/ SimLoadSucceeds \/ SimPage \/ SimDone
  \/ HandlerStart \/ HandlerValidate
  \/ HandlerLoadSucceeds \/ HandlerLoadFails \/ HandlerLoadExhausted
  \/ HandlerPageLimit \/ HandlerPage \/ HandlerDone

SpecLive == Init /\ [][Next]_vars /\ WF_vars(ProgramStep)

\* ----------------------------------------------------------- properties
LoadMethodSet == {LoadMethods[i] : i \in 1..Len(LoadMethods)}
IsLoadEntry(e) == e.method \in LoadMethodSet

\* the load-chain entries of the diagnostic, in recorded order
LoadEntries == SelectSeq(diagnostic.attempts, IsLoadEntry)

ContentCodes == {"PDF_ENCRYPTED", "TOO_MANY_PAGES", "NO_IMAGES"}

ExtractEnded == op = "extract" /\ pc = "done"
ExtractThrew(code) ==
  ExtractEnded /\ outcome.kind = "thrown" /\ outcome.code = code

\* C1: the load-chain entries of a run are a prefix of the canonical list,
\* in order; at most one of them is a success and a success is the last
\* entry (nothing is attempted after a configuration has succeeded).
C1_ChainOrder ==
  op = "extract" =>
    /\ Len(LoadEntries) <= Len(LoadMethods)
    /\ \A i \in 1..Len(LoadEntries) :
         /\ LoadEntries[i].method = LoadMethods[i]
         /\ LoadEntries[i].success => i = Len(LoadEntries)

C1_Witness ==
  /\ ExtractEnded
  /\ Len(LoadEntries) = 4
  /\ LoadEntries[4].success
  /\ \A i \in 1..3 : ~LoadEntries[i].success

\* C2: once a load attempt has failed with a password/encryption error no
\* further configuration is tried: the diagnostic holds exactly one
\* load-chain attempt and the run ends with PDF_ENCRYPTED.
C2_ShortCircuit ==
  (/\ op = "extract"
   /\ Len(LoadEntries) >= 1
   /\ ~LoadEntries[1].success
   /\ Includes(LoadEntries[1].error, <<"password">>))
  => /\ Len(LoadEntries) = 1
     /\ pc = "done" => outcome = Thrown("PDF_ENCRYPTED")

\* C3: no run of extractImagesFromPDF ends while the document handle it
\* loaded is still open.
C3_HandleReleased == ExtractEnded => handle # "open"

\* C4: the percentages passed to the progress callback never decrease
\* within a run.
C4_ProgressMonotonic ==
  op = "extract" =>
    \A i \in 1..(Len(progressLog) - 1) :
      PctLeq(progressLog[i], progressLog[i + 1])

\* C5: when header validation has failed and the buffer left after repair
\* still has no valid header, the run has ended with INVALID_PDF and no
\* load attempt is recorded.
C5_InvalidHeaderIsFatal ==
  (/\ op = "extract"
   /\ \E i \in 1..Len(diagnostic.attempts) :
        /\ diagnostic.attempts[i].method = "header_validation"
        /\ ~diagnostic.attempts[i].success
   /\ ~validatePDFHeader(arrayBuffer).valid)
  => /\ ExtractThrew("INVALID_PDF")
     /\ Len(LoadEntries) = 0

\* C6: a run whose load chain failed for a non-encryption reason has sent
\* the file to the remote extraction endpoint before it raised its error.
C6_Tier2Entered ==
  (/\ ExtractEnded
   /\ Len(LoadEntries) = Len(LoadMethods)
   /\ \A i \in 1..Len(LoadEntries) : ~LoadEntries[i].success
   /\ ClassifyLoadError(lastError) # "PDF_ENCRYPTED")
  => fetchCalls >= 1

\* C7: a run that fails with a content-related error (PDF_ENCRYPTED,
\* TOO_MANY_PAGES, NO_IMAGES) has ended with exactly that classification
\* and has neither sent a remote request nor entered the local simulation.
C7_ContentFailureStaysLocal ==
  (/\ op = "extract"
   /\ outcome.kind = "thrown"
   /\ outcome.code \in ContentCodes)
  => /\ pc = "done"
     /\ diagnostic.errorCode = outcome.code
     /\ fetchCalls = 0
     /\ simulateCalls = 0

C7_Witness ==
  /\ ExtractThrew("PDF_ENCRYPTED")
  /\ Len(LoadEntries) = Len(LoadMethods)
  /\ fetchCalls = 0

\* C8: when the local simulation, entered after the remote endpoint failed,
\* fails itself, the terminal classification is ALL_METHODS_FAILED.
C8_AllMethodsFailed ==
  (/\ op = "upload"
   /\ pc = "done"
   /\ simulateCalls >= 1
   /\ outcome.kind = "returned"
   /\ ~outcome.result.success)
  => diagnostic.errorCode = "ALL_METHODS_FAILED"

\* C9: after a successful load autoRepairUsed is the name of the
\* configuration that succeeded when that is not the first one, and is
\* unset when the first configuration succeeded.
C9_AutoRepairUsed ==
  (/\ op = "extract"
   /\ Len(LoadEntries) >= 1
   /\ LoadEntries[Len(LoadEntries)].success)
  => LET used == LoadEntries[Len(LoadEntries)].method
     IN /\ used = "standard_load_with_worker"
             => diagnostic.autoRepairUsed = Undefined
        /\ used # "standard_load_with_worker"
             => diagnostic.autoRepairUsed = used

C9_Witness ==
  /\ ExtractEnded
  /\ outcome.kind = "returned"
  /\ Len(LoadEntries) = 4
  /\ diagnostic.autoRepairUsed = "standard_load_no_worker"

\* C10: when all six configurations have failed the error raised is the
\* one of the last configuration, and the diagnostic holds one failed entry
\* per configuration with its method name, error text and duration.
C10_ChainExhausted ==
  (op = "extract" /\ attemptIdx > Len(LoadMethods))
  => /\ Len(LoadEntries) = Len(LoadMethods)
     /\ \A i \in 1..Len(LoadEntries) :
          /\ LoadEntries[i].method = LoadMethods[i]
          /\ LoadEntries[i].success = FALSE
          /\ "error" \in DOMAIN LoadEntries[i]
          /\ LoadEntries[i].error \in LoadErrors
          /\ "duration" \in DOMAIN LoadEntries[i]
          /\ LoadEntries[i].duration >= 0
     /\ lastError = LoadEntries[Len(LoadMethods)].error
     /\ pc = "done" =>
          outcome = Thrown(ClassifyLoadError(
                             LoadEntries[Len(LoadMethods)].error))

C10_Witness ==
  /\ ExtractThrew("PDF_LOAD_FAILED")
  /\ Len(LoadEntries) = Len(LoadMethods)
  /\ LoadEntries[1].error # LoadEntries[Len(LoadMethods)].error

\* a load-chain entry that failed with a password error
IsPasswordFailure(e) ==
  /\ ~e.success
  /\ Includes(e.error, <<"password">>)

\* C11: a run in which some load attempt reported password protection ends
\* with PDF_ENCRYPTED, and a run that ends with PDF_LOAD_FAILED has six
\* failed load attempts none of which reported password protection.
C11_EncryptionClassified ==
  /\ (/\ ExtractEnded
      /\ \E i \in 1..Len(LoadEntries) : IsPasswordFailure(LoadEntries[i]))
     => outcome = Thrown("PDF_ENCRYPTED")
  /\ ExtractThrew("PDF_LOAD_FAILED")
     => /\ Len(LoadEntries) = Len(LoadMethods)
        /\ \A i \in 1..Len(LoadEntries) :
             /\ ~LoadEntries[i].success
             /\ ~IsPasswordFailure(LoadEntries[i])

\* the run has passed header validation and repair
HeaderStageDone ==
  /\ op = "extract"
  /\ \E i \in 1..Len(diagnostic.attempts) :
       diagnostic.attempts[i].method = "header_validation"

\* C12: for a buffer that fails header validation and holds '%PDF-' at a
\* first offset k > 0 within its first 1024 bytes, the buffer handed on by
\* the repair is the input without its first k bytes and has a valid header.
C12_HeaderRepair ==
  LET buf == file.bytes
      len == ByteLength(buf)
      hits == {i \in 0..Min(len - 5, ScanWindow - 1) :
                 \A j \in 0..4 : ByteAt(buf, i + j) = PDF_MAGIC[j + 1]}
  IN (/\ HeaderStageDone
      /\ ~validatePDFHeader(buf).valid
      /\ hits # {})
     => LET k == CHOOSE i \in hits : \A j \in hits : i <= j
        IN /\ k > 0
           /\ ByteLength(arrayBuffer) = len - k
           /\ \A i \in 0..(len - k - 1) :
                ByteAt(arrayBuffer, i) = ByteAt(buf, i + k)
           /\ validatePDFHeader(arrayBuffer).valid

\* the diagnostic holds an entry of the given method
HasAttempt(method) ==
  \E i \in 1..Len(diagnostic.attempts) :
    diagnostic.attempts[i].method = method

\* C13 as stated: for every buffer handed to the repair whose last 1024
\* bytes do not contain '%%EOF', the buffer handed on is the input followed
\* by the fixed marker bytes, every original byte unchanged and in place.
C13_EofRepairOriginal ==
  LET buf == file.bytes
      len == ByteLength(buf)
      inTail == \E s \in Max(0, len - ScanWindow)..(len - 5) :
                  \A j \in 0..4 : ByteAt(buf, s + j) = EOF_MARKER[j + 1]
  IN (/\ HeaderStageDone
      /\ ~validatePDFHeader(buf).valid
      /\ ~inTail)
     => /\ ByteLength(arrayBuffer) = len + 6
        /\ \A i \in 0..(len - 1) : ByteAt(arrayBuffer, i) = ByteAt(buf, i)
        /\ \A j \in 0..5 :
             ByteAt(arrayBuffer, len + j) = <<10, 37, 37, 69, 79, 70>>[j + 1]

\* C13 (amended): for every buffer handed to the repair from which no
\* leading bytes were stripped and in which no '%%EOF' ends within the last
\* 1024 bytes, the buffer handed on is the input followed by exactly the six
\* bytes '\n%%EOF', every original byte unchanged and in place.
C13_EofRepair ==
  LET buf == file.bytes
      len == ByteLength(buf)
      endsInTail == \E e \in Max(0, len - ScanWindow)..(len - 1) :
                      \A j \in 0..4 : ByteAt(buf, e - 4 + j) = EOF_MARKER[j + 1]
  IN (/\ HeaderStageDone
      /\ ~validatePDFHeader(buf).valid
      /\ ~HasAttempt("header_repair")
      /\ ~endsInTail)
     => /\ ByteLength(arrayBuffer) = len + 6
        /\ \A i \in 0..(len - 1) : ByteAt(arrayBuffer, i) = ByteAt(buf, i)
        /\ \A j \in 0..5 :
             ByteAt(arrayBuffer, len + j) = <<10, 37, 37, 69, 79, 70>>[j + 1]

C13_Witness ==
  /\ HeaderStageDone
  /\ HasAttempt("eof_repair")
  /\ ByteLength(file.bytes) > 5
  /\ ByteLength(arrayBuffer) = ByteLength(file.bytes) + 6

\* the handler has received the file and built its diagnostic
HandlerHasFile ==
  /\ op = "handler"
  /\ "autoRepairUsed" \notin DOMAIN diagnostic

\* the handler has answered with the given status and classification
HandlerAnswered(status, code) ==
  /\ HandlerHasFile
  /\ pc = "done"
  /\ outcome.status = status
  /\ "errorCode" \in DOMAIN diagnostic
  /\ diagnostic.errorCode = code

\* C14: a file of exactly 200 MiB is never classified FILE_TOO_LARGE, and a
\* file one byte larger is rejected with FILE_TOO_LARGE (status 413 from
\* the handler) with no attempt recorded, by extractImagesFromPDF and by
\* the handler alike.
C14_SizeBoundary ==
  /\ (op = "extract" /\ file.size = 200 * 1024 * 1024)
     => /\ diagnostic.errorCode # "FILE_TOO_LARGE"
        /\ ~ExtractThrew("FILE_TOO_LARGE")
  /\ (HandlerHasFile /\ file.size = 200 * 1024 * 1024)
     => /\ ~HandlerAnswered(413, "FILE_TOO_LARGE")
        /\ "errorCode" \in DOMAIN diagnostic
             => diagnostic.errorCode # "FILE_TOO_LARGE"
  /\ (op = "extract" /\ file.size = 200 * 1024 * 1024 + 1)
     => /\ ExtractThrew("FILE_TOO_LARGE")
        /\ diagnostic.attempts = <<>>
  /\ (HandlerHasFile /\ file.size = 200 * 1024 * 1024 + 1)
     => /\ HandlerAnswered(413, "FILE_TOO_LARGE")
        /\ ~outcome.body.success
        /\ diagnostic.attempts = <<>>

C14_Witness ==
  /\ ExtractEnded
  /\ file.size = 200 * 1024 * 1024
  /\ outcome.kind = "returned"
  /\ Len(diagnostic.attempts) > 0

\* C15: once the load has succeeded and the page count has been checked, a
\* document of more than 1000 pages has ended the run with TOO_MANY_PAGES
\* and no embedded_extraction or rasterization entry, while a document of
\* at most 1000 pages is never classified TOO_MANY_PAGES and, unless it is
\* encrypted, ends with an embedded_extraction entry recorded.
C15_PageCeiling ==
  (op = "extract" /\ handle = "open" /\ pc # "loaded")
  => /\ pdf.numPages > 1000
        => /\ ExtractThrew("TOO_MANY_PAGES")
           /\ ~HasAttempt("embedded_extraction")
           /\ ~HasAttempt("rasterization")
     /\ pdf.numPages <= 1000
        => /\ diagnostic.errorCode # "TOO_MANY_PAGES"
           /\ ~ExtractThrew("TOO_MANY_PAGES")
           /\ (pc = "done" /\ pdf.meta # "encrypted")
                => HasAttempt("embedded_extraction")

C15_Witness ==
  /\ ExtractEnded
  /\ pdf.numPages = 1000
  /\ HasAttempt("embedded_extraction")

\* the entry of the given method, when the diagnostic holds exactly one
AttemptOf(method) ==
  LET idx == CHOOSE i \in 1..Len(diagnostic.attempts) :
               diagnostic.attempts[i].method = method
  IN diagnostic.attempts[idx]

\* no page of the loaded document carries an image-paint operation
NoImagePages == \A p \in 1..Len(pdf.kinds) : pdf.kinds[p] # "image"

\* C16: rasterization is entered exactly when the embedded pass has been
\* recorded with zero items; a run on a document without image-paint
\* operations that went through the passes ends with the embedded_extraction
\* entry (imageCount 0) immediately followed by the rasterization entry as
\* the last two entries, and a returned result is the rasterization output.
C16_RasterIffEmbeddedEmpty ==
  op = "extract" =>
    /\ (pc = "raster" \/ HasAttempt("rasterization"))
       <=> (/\ HasAttempt("embedded_extraction")
            /\ AttemptOf("embedded_extraction").imageCount = 0)
    /\ (/\ pc = "done"
        /\ HasAttempt("embedded_extraction")
        /\ NoImagePages)
       => LET n == Len(diagnostic.attempts)
          IN /\ diagnostic.attempts[n - 1].method = "embedded_extraction"
             /\ diagnostic.attempts[n - 1].imageCount = 0
             /\ diagnostic.attempts[n].method = "rasterization"
             /\ outcome.kind = "returned"
                  => /\ outcome.images = images
                     /\ Len(outcome.images) = diagnostic.attempts[n].imageCount
                     /\ Len(outcome.images) > 0

C16_Witness ==
  /\ ExtractEnded
  /\ outcome.kind = "returned"
  /\ NoImagePages
  /\ HasAttempt("rasterization")
  /\ AttemptOf("embedded_extraction").imageCount = 0
  /\ Len(outcome.images) = pdf.numPages

\* the run went past the prechecks, the load and the encryption check
ReachedPasses ==
  /\ op = "extract"
  /\ handle = "open"
  /\ pdf.numPages <= MAX_PAGES
  /\ pdf.meta # "encrypted"
  /\ pc \in {"embedded", "raster", "done"}

\* C17: a finished run on a document with at least one image-bearing page
\* that renders returns exactly one item per such page, in page order; no
\* rasterization entry exists, NO_IMAGES is not raised, and the diagnostic
\* holds a successful embedded_extraction entry whose imageCount is the
\* number of items.
C17_EmbeddedResult ==
  (/\ ReachedPasses
   /\ pc = "done"
   /\ \E p \in 1..Len(pdf.kinds) : pdf.kinds[p] = "image")
  => /\ outcome.kind = "returned"
     /\ Len(outcome.images) =
          Cardinality({p \in 1..Len(pdf.kinds) : pdf.kinds[p] = "image"})
     /\ \A i \in 1..Len(outcome.images) :
          /\ pdf.kinds[outcome.images[i].pageNumber] = "image"
          /\ i > 1 => outcome.images[i - 1].pageNumber
                        < outcome.images[i].pageNumber
     /\ ~HasAttempt("rasterization")
     /\ diagnostic.errorCode # "NO_IMAGES"
     /\ HasAttempt("embedded_extraction")
     /\ AttemptOf("embedded_extraction").success
     /\ AttemptOf("embedded_extraction").imageCount = Len(outcome.images)

C17_Witness ==
  /\ ReachedPasses
  /\ pc = "done"
  /\ pdf.kinds = <<"broken", "image">>
  /\ outcome.kind = "returned"
  /\ Len(outcome.images) = 1

\* C18: a finished run on a document of n <= 1000 pages, none with an
\* image-paint operation and all rendering, returns exactly n items, the
\* i-th being page i.
C18_RasterEveryPage ==
  (/\ ReachedPasses
   /\ pc = "done"
   /\ \A p \in 1..Len(pdf.kinds) : pdf.kinds[p] = "blank")
  => /\ outcome.kind = "returned"
     /\ Len(outcome.images) = pdf.numPages
     /\ \A i \in 1..Len(outcome.images) : outcome.images[i].pageNumber = i

\* both passes have been recorded with zero items
BothPassesEmpty ==
  /\ HasAttempt("embedded_extraction")
  /\ AttemptOf("embedded_extraction").imageCount = 0
  /\ HasAttempt("rasterization")
  /\ AttemptOf("rasterization").imageCount = 0

\* C19: a run ends with NO_IMAGES exactly when it has finished with both
\* passes recorded with zero items, which happens only after the prechecks
\* and a successful load; a returned result never has an empty item list.
C19_NoImagesExactly ==
  op = "extract" =>
    /\ ExtractThrew("NO_IMAGES") <=> (pc = "done" /\ BothPassesEmpty)
    /\ ExtractThrew("NO_IMAGES")
       => /\ ReachedPasses
          /\ Len(LoadEntries) >= 1
          /\ LoadEntries[Len(LoadEntries)].success
          /\ diagnostic.errorCode = "NO_IMAGES"
    /\ (pc = "done" /\ outcome.kind = "returned")
       => Len(outcome.images) > 0

C19_Witness ==
  /\ ExtractThrew("NO_IMAGES")
  /\ BothPassesEmpty
  /\ pdf.numPages = 2

\* the pages up to p of the loaded document that are of the given kind
\* (pages beyond the listed ones are blank)
PagesOfKind(kind, p) ==
  {q \in 1..Min(p, Len(pdf.kinds)) : pdf.kinds[q] = kind}

\* C20: in both passes a page that throws contributes no item and stops
\* nothing: after the loop has passed page p the embedded pass holds one
\* item per image page up to p and the rasterization pass one item per page
\* up to p that did not throw, in page order; both passes are recorded as
\* successful with these counts over all their pages.
C20_PageErrorIsLocal ==
  ReachedPasses =>
    /\ pc = "embedded"
       => /\ Len(images) = Cardinality(PagesOfKind("image", pageNum - 1))
          /\ \A i \in 1..Len(images) :
               /\ PageKind(pdf, images[i].pageNumber) = "image"
               /\ images[i].pageNumber < pageNum
    /\ pc = "raster"
       => /\ Len(images) =
               (pageNum - 1) - Cardinality(PagesOfKind("broken", pageNum - 1))
          /\ \A i \in 1..Len(images) :
               /\ PageKind(pdf, images[i].pageNumber) # "broken"
               /\ images[i].pageNumber < pageNum
               /\ i > 1 => images[i - 1].pageNumber < images[i].pageNumber
    /\ HasAttempt("embedded_extraction")
       => /\ AttemptOf("embedded_extraction").success
          /\ AttemptOf("embedded_extraction").imageCount =
               Cardinality(PagesOfKind("image", pdf.numPages))
    /\ HasAttempt("rasterization")
       => /\ AttemptOf("rasterization").success
          /\ AttemptOf("rasterization").imageCount =
               RasterTotal(pdf)
                 - Cardinality(PagesOfKind("broken", RasterTotal(pdf)))

C20_Witness ==
  /\ ReachedPasses
  /\ pc = "done"
  /\ pdf.kinds = <<"broken", "blank">>
  /\ outcome.kind = "returned"
  /\ Len(outcome.images) = 1
  /\ outcome.images[1].pageNumber = 2
  /\ outcome.images[1].format = "PNG"

\* the pipeline stage an entry of extractImagesFromPDF belongs to
StageOf(method) ==
  CASE method = "header_validation" -> 1
    [] method \in {"header_repair", "eof_repair", "pdf_repair"} -> 2
    [] method = "header_validation_after_repair" -> 3
    [] method = "worker_initialization" -> 4
    [] method \in LoadMethodSet -> 5
    [] method = "encryption_check" -> 6
    [] method = "embedded_extraction" -> 7
    [] method = "rasterization" -> 8
    [] OTHER -> 0

\* C21: every step of a run leaves the entries already recorded unchanged
\* and at the same index (the old list is a prefix of the new one), and the
\* list it leaves has non-decreasing timestamps and, for
\* extractImagesFromPDF, follows the order in which the stages execute.
C21_AppendOnly ==
  [][LET old == diagnostic.attempts
         new == diagnostic.attempts'
     IN /\ Len(old) <= Len(new)
        /\ \A i \in 1..Len(old) : new[i] = old[i]
        /\ \A i \in 1..(Len(new) - 1) :
             /\ new[i].timestamp <= new[i + 1].timestamp
             /\ op' = "extract"
                  => StageOf(new[i].method) <= StageOf(new[i + 1].method)]_vars

C21_Witness ==
  /\ ExtractEnded
  /\ Len(diagnostic.attempts) >= 6
  /\ HasAttempt("rasterization")
  /\ diagnostic.attempts[1].timestamp
       < diagnostic.attempts[Len(diagnostic.attempts)].timestamp

\* C22: the duration of every entry is the time that elapsed while its
\* attempt ran: one clock unit for the worker initialisation and for each
\* load configuration (one suspension each), and one unit per page visited
\* for the embedded_extraction and rasterization entries.
C22_DurationsAreElapsed ==
  op = "extract" =>
    \A i \in 1..Len(diagnostic.attempts) :
      LET e == diagnostic.attempts[i]
      IN /\ e.method \in LoadMethodSet \cup {"worker_initialization"}
              => e.duration = 1
         /\ e.method = "embedded_extraction" => e.duration = pdf.numPages
         /\ e.method = "rasterization" => e.duration = RasterTotal(pdf)

\* the error codes extractImagesFromPDF assigns
Taxonomy ==
  {"FILE_TOO_LARGE", "NOT_PDF", "INVALID_PDF", "PDF_ENCRYPTED",
   "PDF_LOAD_FAILED", "TOO_MANY_PAGES", "NO_IMAGES", "ALL_METHODS_FAILED",
   "UNKNOWN_ERROR"}

\* C23: a step of extractImagesFromPDF that leaves the run failed is the
\* step that raises the error (no error was raised before and the run is
\* over after it); the error's code is one of the taxonomy values and
\* equals the errorCode of the run's diagnostic, which still holds every
\* attempt recorded before the step.
C23_RaisedOnceClassified ==
  [][(op' = "extract" /\ outcome'.kind = "thrown")
     => /\ outcome.kind = "none"
        /\ pc' = "done"
        /\ outcome'.code \in Taxonomy
        /\ diagnostic'.errorCode = outcome'.code
        /\ diagnostic'.fileSize = file.size
        /\ op = "extract"
             => \A i \in 1..Len(diagnostic.attempts) :
                  /\ i <= Len(diagnostic'.attempts)
                  /\ diagnostic'.attempts[i] = diagnostic.attempts[i]]_vars

C23_Witness ==
  /\ ExtractThrew("UNKNOWN_ERROR")
  /\ diagnostic.errorCode = "UNKNOWN_ERROR"

\* C24: the diagnostic of every failed run holds a recommendation list of
\* one to four entries (up to six for PDF_LOAD_FAILED, which may add the
\* header and the version advice).
C24_RecommendationsPopulated ==
  (ExtractEnded /\ outcome.kind = "thrown")
  => /\ "recommendations" \in DOMAIN diagnostic
     /\ Len(diagnostic.recommendations) >= 1
     /\ Len(diagnostic.recommendations)
          <= (IF outcome.code = "PDF_LOAD_FAILED" THEN 6 ELSE 4)

\* C25: a call of uploadForServerExtraction that has sent its request
\* eventually completes, whether or not the endpoint ever answers.
C25_UploadCompletes == (op = "upload") ~> (op = "upload" /\ pc = "done")

\* C26: no step of a call of uploadForServerExtraction brings the number
\* of requests sent to the endpoint or the number of entries into
\* simulateServerExtraction above one, and once the simulation has been
\* entered no further request is sent.
C26_TiersAtMostOnce ==
  [][op' = "upload"
     => /\ fetchCalls' <= 1
        /\ simulateCalls' <= 1
        /\ simulateCalls >= 1
             => /\ fetchCalls' = fetchCalls
                /\ simulateCalls' = simulateCalls]_vars

C26_Witness ==
  /\ op = "upload"
  /\ pc = "done"
  /\ fetchCalls = 1
  /\ simulateCalls = 1
  /\ outcome.kind = "returned"

\* C27: every answer of the handler with status 400 or 413 has the body
\* {success: false, error, diagnostic}, the diagnostic's errorCode being
\* INVALID_PDF for 400 and FILE_TOO_LARGE or TOO_MANY_PAGES for 413.
C27_ErrorEnvelope ==
  (/\ op = "handler"
   /\ pc = "done"
   /\ outcome.status \in {400, 413})
  => /\ {"success", "error", "diagnostic"} \subseteq DOMAIN outcome.body
     /\ ~outcome.body.success
     /\ "errorCode" \in DOMAIN outcome.body.diagnostic
     /\ outcome.status = 400
          => outcome.body.diagnostic.errorCode = "INVALID_PDF"
     /\ outcome.status = 413
          => outcome.body.diagnostic.errorCode
               \in {"FILE_TOO_LARGE", "TOO_MANY_PAGES"}

\* C28: a result of simulateServerExtraction with success = true holds at
\* least one image; a document that yields no image is answered with
\* success = false, as the handler answers it.
C28_SimulationContract ==
  (/\ op = "upload"
   /\ pc = "done"
   /\ simulateCalls >= 1
   /\ outcome.kind = "returned")
  => /\ outcome.result.success => outcome.result.imageCount >= 1
     /\ (handle = "destroyed" /\ Len(images) = 0)
          => ~outcome.result.success

\* C29: a call of uploadForServerExtraction whose request was answered
\* with status 501 has entered simulateServerExtraction and does not end
\* by throwing the 'Server returned 501' error.
C29_NotImplementedFallsBack ==
  (/\ op = "upload"
   /\ pc = "done"
   /\ outcome.kind = "thrown")
  => SubSeq(outcome.message, 1, 3) # <<"Server", "returned", "501">>

LastProgress == progressLog[Len(progressLog)]

\* C31: every progress value reported while the embedded-image scan runs
\* lies in 25..70 and every value reported while rasterizePages runs lies
\* in 70..95.
C31_PassRanges ==
  /\ (op = "extract" /\ pc = "embedded")
       => (PctLeq(Pct(25), LastProgress) /\ PctLeq(LastProgress, Pct(70)))
  /\ (op = "extract" /\ pc = "raster")
       => (PctLeq(Pct(70), LastProgress) /\ PctLeq(LastProgress, Pct(95)))

\* the footprint width x height x 4 of the document's pages at the nominal
\* scale of the loop in progress: 200/72 in rasterizePages, 2 elsewhere
NominalEstimate ==
  IF pc = "raster"
  THEN EstimatedMemory(Viewport(pdf.pageSize, 200, 72))
  ELSE EstimatedMemory(Viewport(pdf.pageSize, 2, 1))

\* C32: in every page loop (embedded pass, rasterization pass, handler,
\* simulation) an emitted page whose footprint at the nominal scale is
\* above 50 MiB is a JPEG of at most 50 MiB, and a page at or under the
\* ceiling is a PNG.
C32_MemoryCeiling ==
  pc \in {"embedded", "raster", "hPages", "simPages"}
    => \A i \in 1..Len(images) :
         IF NominalEstimate > MAX_MEMORY_PER_IMAGE
         THEN /\ images[i].format \in {"JPEG", "jpeg"}
              /\ images[i].memory <= MAX_MEMORY_PER_IMAGE
         ELSE images[i].format \in {"PNG", "png"}

\* C33: whenever the handler has answered after a successful load (413
\* TOO_MANY_PAGES, 200 NO_IMAGES, 200 success, or a failure after the
\* load), the document it loaded has been destroyed.
C33_HandlerReleases ==
  (op = "handler" /\ pc = "done" /\ pdf # NoDoc) => handle = "destroyed"

C33_Witness ==
  /\ HandlerAnswered(413, "TOO_MANY_PAGES")
  /\ pdf.numPages > HANDLER_MAX_PAGES
  /\ handle = "destroyed"

\* C34: a run of extractImagesFromPDF that executes while another run is in
\* progress loads its document with the worker configuration its own
\* initialization set: no step of the other run has written the
\* process-wide parser worker configuration in between.
C34_RunsShareNothing ==
  peer.pc = "loaded" => peer.loadedWith = BundledWorkerSrc

\* What the file and the parser's answers determine.  The parser's answers
\* are the document it yields (file.doc, page by page) and the results of
\* the load configurations, which the load entries record verbatim.
ImagePagesOf(doc) ==
  {p \in 1..doc.numPages : HasImages(PageKind(doc, p))}
RenderedPagesOf(doc) ==
  {p \in 1..RasterTotal(doc) : PageKind(doc, p) # "broken"}

\* the classification a run on this file with these parser answers ends in
DeterminedKind ==
  IF ExceedsSizeLimit(file.size) THEN "FILE_TOO_LARGE"
  ELSE IF file.type # "application/pdf" /\ ToLowerCase(file.ext) # "pdf"
  THEN "NOT_PDF"
  ELSE IF ~HeaderStageDone THEN "UNKNOWN_ERROR"
  ELSE IF /\ ~validatePDFHeader(file.bytes).valid
          /\ ~attemptPDFRepair(file.bytes, 0).repaired
  THEN "INVALID_PDF"
  ELSE IF \A i \in 1..Len(LoadEntries) : ~LoadEntries[i].success
  THEN ClassifyLoadError(LoadEntries[Len(LoadEntries)].error)
  ELSE IF ExceedsPageLimit(file.doc.numPages) THEN "TOO_MANY_PAGES"
  ELSE IF file.doc.meta = "encrypted" THEN "PDF_ENCRYPTED"
  ELSE IF ImagePagesOf(file.doc) \cup RenderedPagesOf(file.doc) = {}
  THEN "NO_IMAGES"
  ELSE "success"

\* the pages a successful run on this file returns, and the pass they
\* come from
DeterminedPages ==
  IF ImagePagesOf(file.doc) # {} THEN ImagePagesOf(file.doc)
  ELSE RenderedPagesOf(file.doc)
DeterminedItem(p) ==
  IF ImagePagesOf(file.doc) # {} THEN EmbeddedItem(file.doc, p, 0)
  ELSE RasterItem(file.doc, p, 0)

\* what of an item the two runs are compared on
Dimensions(item) == <<item.pageNumber, item.format, item.memory>>

\* C35: the way a run of extractImagesFromPDF ends is a function of the
\* file and of the parser's answers: two runs that agree on both end in
\* the same outcome kind (success, or failure with the same code) and, on
\* success, return the same number of items with the same page numbers
\* and pixel dimensions.
C35_Deterministic ==
  ExtractEnded =>
    IF outcome.kind = "thrown"
    THEN outcome.code = DeterminedKind
    ELSE /\ DeterminedKind = "success"
         /\ Len(outcome.images) = Cardinality(DeterminedPages)
         /\ {outcome.images[i].pageNumber : i \in 1..Len(outcome.images)}
              = DeterminedPages
         /\ \A i \in 1..Len(outcome.images) :
              Dimensions(outcome.images[i])
                = Dimensions(DeterminedItem(outcome.images[i].pageNumber))

C35_Witness ==
  /\ ExtractEnded
  /\ outcome.kind = "returned"
  /\ Len(outcome.images) = 2
  /\ file.doc.numPages = 2
  /\ Len(LoadEntries) > 1

\* C36: when extractImagesFromPDF has returned, the diagnostic agrees with
\* the result: extractedImageCount is the number of items, pageCount is
\* totalPages, the last attempt entry is a success whose imageCount is the
\* number of items, and neither errorCode nor errorMessage is set.
C36_ResultMatchesDiagnostic ==
  (ExtractEnded /\ outcome.kind = "returned")
    => LET last == diagnostic.attempts[Len(diagnostic.attempts)]
       IN /\ diagnostic.extractedImageCount = Len(outcome.images)
          /\ diagnostic.pageCount = outcome.totalPages
          /\ last.success
          /\ "imageCount" \in DOMAIN last
          /\ last.imageCount = Len(outcome.images)
          /\ diagnostic.errorCode = Undefined
          /\ "errorMessage" \notin DOMAIN diagnostic

C36_Witness ==
  /\ ExtractEnded
  /\ outcome.kind = "returned"
  /\ Len(outcome.images) = 2
  /\ diagnostic.attempts[Len(diagnostic.attempts)].method = "rasterization"
  /\ diagnostic.extractedImageCount = 2

\* the list a client pass has collected so far, or has returned
PassItems ==
  IF pc \in {"embedded", "raster"} THEN images
  ELSE IF pc = "done" /\ outcome.kind = "returned" THEN outcome.images
  ELSE <<>>

\* C37: in the list of the embedded pass and of the rasterization pass the
\* page numbers are strictly increasing (so at most one item per page) and
\* lie within 1..numPages, and the ids and suggested filenames are
\* pairwise distinct.
C37_PageOrder ==
  op = "extract" =>
    /\ \A i \in 1..Len(PassItems) :
         PassItems[i].pageNumber \in 1..pdf.numPages
    /\ \A i \in 1..(Len(PassItems) - 1) :
         /\ PassItems[i].pageNumber < PassItems[i + 1].pageNumber
         /\ PassItems[i].id # PassItems[i + 1].id
         /\ PassItems[i].filename # PassItems[i + 1].filename
    /\ Cardinality({PassItems[i].id : i \in 1..Len(PassItems)})
         = Len(PassItems)
    /\ Cardinality({PassItems[i].filename : i \in 1..Len(PassItems)})
         = Len(PassItems)

C37_Witness ==
  /\ ExtractEnded
  /\ outcome.kind = "returned"
  /\ Len(outcome.images) = 2
  /\ outcome.images[1].pageNumber = 1
  /\ outcome.images[2].pageNumber = 2
  /\ outcome.images[1].filename # outcome.images[2].filename

\* the entries attemptPDFRepair writes
IsRepairEntry(e) == e.method \in {"header_repair", "eof_repair", "pdf_repair"}
RepairEntries(diag) == SelectSeq(diag.attempts, IsRepairEntry)

\* C38: the step in which attemptPDFRepair is called adds exactly one
\* repair entry; a buffer comes back (the run goes on with it) iff that
\* entry is a successful header_repair or eof_repair, and then only that
\* one heuristic has been applied to it; null comes back (the run ends)
\* iff the entry is a failed pdf_repair; the file's bytes are unchanged.
C38_OneRepairEntry ==
  [][(/\ op = "extract"
      /\ pc = "reading"
      /\ ~validatePDFHeader(file.bytes).valid
      /\ Len(diagnostic'.attempts) > 0)
     => /\ Len(RepairEntries(diagnostic)) = 0
        /\ Len(RepairEntries(diagnostic')) = 1
        /\ file' = file
        /\ LET e == RepairEntries(diagnostic')[1]
           IN /\ (pc' # "done")
                   <=> (e.method \in {"header_repair", "eof_repair"}
                        /\ e.success)
              /\ (pc' = "done") <=> (e.method = "pdf_repair" /\ ~e.success)
              /\ e.method = "header_repair"
                   => /\ ByteLength(arrayBuffer')
                           = ByteLength(file.bytes) - e.details.removedBytes
                      /\ e.details.removedBytes > 0
              /\ e.method = "eof_repair"
                   => /\ ByteLength(arrayBuffer') = ByteLength(file.bytes) + 6
                      /\ \A k \in 0..(Min(ByteLength(file.bytes), 8) - 1) :
                           ByteAt(arrayBuffer', k) = ByteAt(file.bytes, k)]_vars

C38_Witness ==
  /\ ExtractThrew("INVALID_PDF")
  /\ Len(RepairEntries(diagnostic)) = 1
  /\ RepairEntries(diagnostic)[1].method = "pdf_repair"
  /\ ~RepairEntries(diagnostic)[1].success
  /\ arrayBuffer = file.bytes

\* C39: after a response that is neither OK nor 404 the choice between
\* falling back to simulateServerExtraction and throwing depends on the
\* status only: when a run has thrown 'Server returned <status>: <body>',
\* no response with the same status and another body text makes the
\* function fall back.
C39_StatusAloneDecides ==
  (/\ op = "upload"
   /\ pc = "done"
   /\ outcome.kind = "thrown"
   /\ Len(outcome.message) >= 3
   /\ SubSeq(outcome.message, 1, 2) = <<"Server", "returned">>)
  => \A body \in ErrorBodies :
       ~FallsBackToSimulation(SubSeq(outcome.message, 1, 3) \o body)

====
